---------------------------- MODULE Spec2Model ----------------------------
(***************************************************************************)
(* Knob Generator: the mesh engine generate_knob_mesh (src/knob_lib.py)    *)
(* and the script run of the control panel around it (src/app.py).         *)
(*                                                                         *)
(* Numbers.  The code computes in floating point millimetres.  Here every  *)
(* length is an integer number of EPS = 0.001 mm (the smallest length the  *)
(* code distinguishes), and every dimensionless factor (cos, sin, sqrt,    *)
(* lobe depth) is an integer number of thousandths.  Division rounds down. *)
(*                                                                         *)
(* Points.  Every profile generator samples point i at the angle           *)
(* 2*pi*i/segments, so a vertex is kept in cylindrical form                *)
(* [i, r, z]: the index of its angle, its signed distance from the axis    *)
(* and its height.  The Cartesian point of the code is                     *)
(* (r*cos(2*pi*i/N), r*sin(2*pi*i/N), z).                                  *)
(***************************************************************************)
EXTENDS Integers, Sequences, FiniteSets, TLC

\* 0.001 mm, the epsilon of the radial guards; the unit of every length
EPS == 1
MM == 1000 * EPS
\* thousandths: the unit of every factor
ONE == 1000

\* Bound of the model: segments is drawn from 3..MaxSegments
MaxSegments == 4

Max(a, b) == IF a >= b THEN a ELSE b
Abs(a) == IF a < 0 THEN -a ELSE a

(***************************************************************************)
(* math.sqrt, math.sin, math.cos in thousandths.                           *)
(***************************************************************************)
RECURSIVE SqrtSearch(_, _, _)
SqrtSearch(n, lo, hi) ==
    IF lo >= hi THEN lo
    ELSE LET mid == (lo + hi + 1) \div 2
         IN  IF mid * mid <= n THEN SqrtSearch(n, mid, hi)
             ELSE SqrtSearch(n, lo, mid - 1)

\* math.sqrt(max(0, 1 - ratio**2)), ratio and result in thousandths
SqrtOneMinusSq(ratio) == SqrtSearch(Max(0, ONE * ONE - ratio * ratio), 0, ONE)

\* sin(pi * p / q) for 0 <= p <= q (Bhaskara's rational form of the sine;
\* exact at 0, 30, 90, 150 and 180 degrees, within 0.002 elsewhere)
SinHalfTurn(p, q) == (16 * ONE * p * (q - p)) \div (5 * q * q - 4 * p * (q - p))

\* math.cos(2 * pi * k / m), any integer k, m > 0
Cos(k, m) ==
    LET a == k % m
    IN  IF 4 * a <= m THEN SinHalfTurn(4 * a + m, 2 * m)
        ELSE IF 4 * a >= 3 * m THEN SinHalfTurn(4 * (a - m) + m, 2 * m)
        ELSE -SinHalfTurn(4 * (2 * a - m) + 2 * m, 4 * m)

(***************************************************************************)
(* The nut table and the parameter values.                                 *)
(***************************************************************************)
None == [none |-> TRUE]

NUT_TYPES ==
    [k \in {"None", "M3 Nut", "M8 Nut"} |->
        CASE k = "None" -> None
          [] k = "M3 Nut" -> [width |-> 5500, height |-> 2400, tolerance |-> 200]
          [] k = "M8 Nut" -> [width |-> 13000, height |-> 6500, tolerance |-> 300]]

\* Python truth value of nut_info
Truthy(nut_info) == nut_info # None

\* nut_info.get("tolerance", 0.2)
NutTolerance(nut_info) ==
    IF "tolerance" \in DOMAIN nut_info THEN nut_info.tolerance ELSE 200

(***************************************************************************)
(* Profile generators: the radius of each of the N points.                 *)
(***************************************************************************)
create_circle_profile(diameter, segments) ==
    LET radius == diameter \div 2
    IN  [k \in 1..segments |-> radius]

create_lobed_profile(diameter, lobes, protrusion_ratio, segments) ==
    LET r_outer == diameter \div 2
        depth_factor == (6 * protrusion_ratio) \div 10
        r_inner == (r_outer * (ONE - depth_factor)) \div ONE
        r_mid == (r_outer + r_inner) \div 2
        amp == (r_outer - r_inner) \div 2
    IN  [k \in 1..segments |-> r_mid + (amp * Cos(lobes * (k - 1), segments)) \div ONE]

create_polygon_profile(diameter, sides, segments) ==
    LET apothem == diameter \div 2
        \* angle_in_sector and angle_from_center in units of 1/(2*sides*segments) turn
        InSector(i) == 2 * ((sides * i) % segments)
        FromCenter(i) == InSector(i) - segments
    IN  [k \in 1..segments |->
            (apothem * ONE) \div Cos(FromCenter(k - 1), 2 * sides * segments)]

create_d_shaft_profile(diameter, flat_to_opposite, segments) ==
    LET radius == diameter \div 2
        d_center_to_flat == flat_to_opposite - radius
        rx(i) == (radius * Cos(i, segments)) \div ONE
    IN  [k \in 1..segments |->
            IF rx(k - 1) > d_center_to_flat
            THEN (d_center_to_flat * ONE) \div Cos(k - 1, segments)
            ELSE radius]

(***************************************************************************)
(* The parameters of one call.  A call takes its arguments from two        *)
(* small families: shells with every body, fillet, dome and boss treatment *)
(* over a round bore; and cavities of every shaft mode, nut and depth      *)
(* under a plain round body.                                               *)
(***************************************************************************)
Styles ==
    { [knob_style |-> "Round", ridges |-> 0, lobes |-> 6, lobe_protrusion |-> 300],
      [knob_style |-> "Round", ridges |-> 32, lobes |-> 6, lobe_protrusion |-> 300],
      [knob_style |-> "Lobed", ridges |-> 0, lobes |-> 5, lobe_protrusion |-> 300] }
PlainRound == [knob_style |-> "Round", ridges |-> 0, lobes |-> 6, lobe_protrusion |-> 300]

\* <<radius, height>> of a fillet
Fillets == { <<0, 0>>, <<2 * MM, 2 * MM>>, <<2 * MM, 0>>, <<0, 10 * MM>> }
\* <<recess_depth, recess_diameter>>
Recesses == { <<0, 15 * MM>>, <<5 * MM, 15 * MM>>, <<10 * MM, 5 * MM>> }
\* <<shaft_type, nut_info, nut_location>>
ShaftModes ==
    { <<"D-Shaft", None, "Bottom">>, <<"Round Hole", None, "Bottom">>,
      <<"Nut Trap", NUT_TYPES["M3 Nut"], "Bottom">>, <<"Nut Trap", NUT_TYPES["M3 Nut"], "Top">>,
      <<"Nut Trap", NUT_TYPES["M8 Nut"], "Bottom">>,
      <<"Nut Trap", None, "Bottom">>, <<"Nut Trap", None, "Top">> }

MkParams(style, height, top, bottom, dome, boss, recess, mode, dia, depth, through, n) ==
    [ knob_diameter |-> 25 * MM, knob_height |-> height,
      knob_style |-> style.knob_style, lobes |-> style.lobes,
      lobe_protrusion |-> style.lobe_protrusion, ridges |-> style.ridges,
      top_fillet_radius |-> top[1], top_fillet_height |-> top[2],
      bottom_fillet_radius |-> bottom[1], bottom_fillet_height |-> bottom[2],
      is_dome |-> dome,
      boss_height |-> boss, boss_diameter |-> 10 * MM,
      recess_depth |-> recess[1], recess_diameter |-> recess[2],
      shaft_type |-> mode[1], shaft_dia |-> dia, hole_depth |-> depth,
      through_hole |-> through, nut_info |-> mode[2], nut_location |-> mode[3],
      segments |-> n ]

SegmentValues == 3..MaxSegments

ShellCalls ==
    { MkParams(style, height, top, bottom, dome, boss, recess,
               <<"Round Hole", None, "Bottom">>, 6 * MM, 5 * MM, through, n) :
        style \in Styles, height \in {5 * MM, 15 * MM}, top \in Fillets,
        bottom \in Fillets, dome \in BOOLEAN, boss \in {0, 5 * MM},
        recess \in {<<0, 15 * MM>>, <<5 * MM, 15 * MM>>},
        through \in BOOLEAN, n \in SegmentValues }

CavityCalls ==
    { MkParams(PlainRound, height, <<0, 0>>, <<0, 0>>, dome, boss, recess,
               mode, dia, depth, through, n) :
        height \in {5 * MM, 15 * MM}, dome \in BOOLEAN, boss \in {0, 5 * MM},
        recess \in Recesses, mode \in ShaftModes, dia \in {2 * MM, 6 * MM},
        depth \in {1 * MM, 5 * MM}, through \in BOOLEAN, n \in SegmentValues }

Calls == ShellCalls \cup CavityCalls

(***************************************************************************)
(* Mesh state: the vertex list, the faces (triples of 0-based vertex       *)
(* indices) and, for each face, the section of the code that emitted it.   *)
(***************************************************************************)
Pt(i, r, z) == [i |-> i, r |-> r, z |-> z]
Center(z) == Pt(0, 0, z)
RingAt(profile, z) == [k \in 1..Len(profile) |-> Pt(k - 1, profile[k], z)]
EmptyMesh == [v |-> <<>>, f |-> <<>>, part |-> <<>>]

\* What one call of add_quad appends when len(all_vertices) = idx
add_quad(idx, p1, p2, p3, p4, flip, tag) ==
    [ v |-> <<p1, p2, p3, p4>>,
      f |-> IF flip
            THEN << <<idx, idx + 2, idx + 1>>, <<idx, idx + 3, idx + 2>> >>
            ELSE << <<idx, idx + 1, idx + 2>>, <<idx, idx + 2, idx + 3>> >>,
      part |-> <<tag, tag>> ]

\* The mesh after the calls quad(0), ..., quad(n - 1), each appending 4
\* vertices and 2 faces
\* for i in range(segments): add_quad(a[i], a[next_i], b[next_i], b[i], flip)
Stitch(m, a, b, flip, tag) ==
    LET n == Len(a)
        quad(i) == LET next_i == (i + 1) % n
                   IN  add_quad(Len(m.v) + 4 * i, a[i + 1], a[next_i + 1],
                                b[next_i + 1], b[i + 1], flip, tag)
    IN  [ v |-> m.v \o [k \in 1..(4 * n) |-> quad((k - 1) \div 4).v[((k - 1) % 4) + 1]],
          f |-> m.f \o [k \in 1..(2 * n) |-> quad((k - 1) \div 2).f[((k - 1) % 2) + 1]],
          part |-> m.part \o [k \in 1..(2 * n) |-> quad((k - 1) \div 2).part[((k - 1) % 2) + 1]] ]

\* for i in range(segments): add_quad(a[next_i], a[i], b[i], b[next_i])
StitchReversed(m, a, b, tag) ==
    LET n == Len(a)
        quad(i) == LET next_i == (i + 1) % n
                   IN  add_quad(Len(m.v) + 4 * i, a[next_i + 1], a[i + 1],
                                b[i + 1], b[next_i + 1], FALSE, tag)
    IN  [ v |-> m.v \o [k \in 1..(4 * n) |-> quad((k - 1) \div 4).v[((k - 1) % 4) + 1]],
          f |-> m.f \o [k \in 1..(2 * n) |-> quad((k - 1) \div 2).f[((k - 1) % 2) + 1]],
          part |-> m.part \o [k \in 1..(2 * n) |-> quad((k - 1) \div 2).part[((k - 1) % 2) + 1]] ]

\* center = [0, 0, z]; idx_c = len(all_vertices); all_vertices.append(center)
\* for i in range(segments): idx_1 = len(all_vertices); idx_2 = idx_1 + 1
\*     all_vertices.extend([ring[i], ring[next_i]]); all_faces.append([idx_c, idx_1, idx_2])
Fan(m, z, ring, tag) ==
    LET n == Len(ring)
        idx_c == Len(m.v)
        idx_1(i) == idx_c + 1 + 2 * i
    IN  [ v |-> m.v \o <<Center(z)>>
                    \o [k \in 1..(2 * n) |->
                            IF (k - 1) % 2 = 0 THEN ring[((k - 1) \div 2) + 1]
                            ELSE ring[((((k - 1) \div 2) + 1) % n) + 1]],
          f |-> m.f \o [k \in 1..n |-> <<idx_c, idx_1(k - 1), idx_1(k - 1) + 1>>],
          part |-> m.part \o [k \in 1..n |-> tag] ]

(***************************************************************************)
(* 1. Profiles                                                             *)
(***************************************************************************)
BodyProfile(p) ==
    IF p.knob_style = "Lobed"
    THEN create_lobed_profile(p.knob_diameter, p.lobes, p.lobe_protrusion, p.segments)
    ELSE IF p.ridges > 0
         THEN create_lobed_profile(p.knob_diameter, p.ridges, 50, p.segments)
         ELSE create_circle_profile(p.knob_diameter, p.segments)

BossProfile(p) == create_circle_profile(p.boss_diameter, p.segments)

ShaftProfile(p) ==
    IF p.shaft_type = "D-Shaft"
    THEN LET flat_val == IF p.shaft_dia = 6 * MM THEN 4500 ELSE (p.shaft_dia * 3) \div 4
         IN  create_d_shaft_profile(p.shaft_dia, flat_val, p.segments)
    ELSE create_circle_profile(p.shaft_dia, p.segments)

(***************************************************************************)
(* 3. Outer shell                                                          *)
(***************************************************************************)
z_base(p) == IF p.boss_height > 100 THEN p.boss_height ELSE 0

\* scale = (mag - inset) / mag if mag > 0.001 else 1.0, applied to a point
\* at distance mag from the axis
Inset(mag, inset) == IF mag > EPS THEN mag - inset ELSE mag

InsetRing(profile, inset, z) ==
    [k \in 1..Len(profile) |-> Pt(k - 1, Inset(profile[k], inset), z)]

BossRings(p, boss_profile) ==
    IF p.boss_height > 100
    THEN <<RingAt(boss_profile, 0), RingAt(boss_profile, p.boss_height)>>
    ELSE <<>>

HasBottomFillet(p) == p.bottom_fillet_radius > 0 \/ p.bottom_fillet_height > 0

BottomRings(p, body_profile) ==
    IF HasBottomFillet(p)
    THEN [k \in 1..7 |->
            LET s == k - 1
                z_f == z_base(p) + (p.bottom_fillet_height * s) \div 6
                ratio == ONE - SinHalfTurn(s, 12)
                inset == IF p.bottom_fillet_height > 0
                         THEN (p.bottom_fillet_radius * ratio) \div ONE
                         ELSE 0
            IN  InsetRing(body_profile, inset, z_f)]
    ELSE <<RingAt(body_profile, z_base(p))>>

current_z(p) ==
    IF HasBottomFillet(p) THEN z_base(p) + p.bottom_fillet_height ELSE z_base(p)

z_top_abs(p) == z_base(p) + p.knob_height

z_fillet_start_without_dome(p) == Max(current_z(p), z_top_abs(p) - p.top_fillet_height)

z_fillet_start(p) ==
    IF p.is_dome THEN current_z(p)
    ELSE Max(current_z(p), z_top_abs(p) - p.top_fillet_height)

\* the dome stepped with t = s / (dome_steps + 1): its last ring stays open
DomeRingsOneStepShort(p, body_profile) ==
    LET h_dome == z_top_abs(p) - z_fillet_start(p)
    IN  [s \in 1..12 |->
            LET z_curr == z_fillet_start(p) + (h_dome * s) \div 13
                z_local == z_curr - z_fillet_start(p)
                r_factor == IF h_dome > 0
                            THEN SqrtOneMinusSq((z_local * ONE) \div h_dome)
                            ELSE 0
            IN  [k \in 1..Len(body_profile) |->
                    Pt(k - 1, (body_profile[k] * r_factor) \div ONE, z_curr)]]

DomeRings(p, body_profile) ==
    LET h_dome == z_top_abs(p) - z_fillet_start(p)
    IN  [s \in 1..12 |->
            LET z_curr == z_fillet_start(p) + (h_dome * s) \div 12
                z_local == z_curr - z_fillet_start(p)
                r_factor == IF h_dome > 0
                            THEN SqrtOneMinusSq((z_local * ONE) \div h_dome)
                            ELSE 0
            IN  [k \in 1..Len(body_profile) |->
                    Pt(k - 1, (body_profile[k] * r_factor) \div ONE, z_curr)]]

TopFilletRings(p, body_profile) ==
    [s \in 1..8 |->
        LET dz_fillet_local == (p.top_fillet_height * s) \div 8
            z_curr == z_fillet_start(p) + dz_fillet_local
            inset == IF p.top_fillet_height > 0
                     THEN (p.top_fillet_radius
                           * (ONE - SqrtOneMinusSq((dz_fillet_local * ONE) \div p.top_fillet_height)))
                          \div ONE
                     ELSE 0
        IN  InsetRing(body_profile, inset, z_curr)]

\* the fillet rings lofted only for a positive fillet radius
TopRingsFilletByRadiusOnly(p, body_profile) ==
    IF p.is_dome THEN DomeRings(p, body_profile)
    ELSE IF p.top_fillet_radius > 0
         THEN TopFilletRings(p, body_profile)
         ELSE <<>>

TopRings(p, body_profile) ==
    IF p.is_dome THEN DomeRings(p, body_profile)
    ELSE IF p.top_fillet_radius > 0 \/ p.top_fillet_height > 0
         THEN TopFilletRings(p, body_profile)
         ELSE <<>>

OuterRings(p, body_profile, boss_profile) ==
    BossRings(p, boss_profile) \o BottomRings(p, body_profile)
        \o <<RingAt(body_profile, z_fillet_start(p))>> \o TopRings(p, body_profile)

\* for r in range(len(outer_rings) - 1): stitch ring r to ring r + 1
RECURSIVE StitchOuter(_, _, _)
StitchOuter(m, rings, r) ==
    IF r >= Len(rings) THEN m
    ELSE StitchOuter(Stitch(m, rings[r], rings[r + 1], FALSE, "shell"), rings, r + 1)

(***************************************************************************)
(* 4. Top closure / recess.  Each branch yields the mesh, the              *)
(* z_shaft_top_limit it leaves, the dish rings it built and whether it     *)
(* raised.                                                                 *)
(***************************************************************************)
TopOuterRing(outer_rings) == outer_rings[Len(outer_rings)]
ZTopMesh(outer_rings) == TopOuterRing(outer_rings)[1].z
total_z_height(p) == z_base(p) + p.knob_height

\* z_shaft_top_limit before the closure branch runs
ShaftLimitBeforeClosure(p) ==
    IF p.through_hole
    THEN IF p.is_dome THEN total_z_height(p)
         ELSE IF p.recess_depth > 0
              THEN Max(z_base(p), total_z_height(p) - p.recess_depth)
              ELSE total_z_height(p)
    ELSE p.hole_depth

IsOpen(p) == p.through_hole \/ (p.shaft_type = "Nut Trap" /\ p.nut_location = "Top")

Closed(m, zlim, dish) == [m |-> m, zlim |-> zlim, dish |-> dish, raised |-> FALSE]

DomeClosure(p, m, outer_rings) ==
    LET final_r == Abs(TopOuterRing(outer_rings)[1].r)
    IN  Closed(IF final_r > 100
               THEN Fan(m, ZTopMesh(outer_rings), TopOuterRing(outer_rings), "dome_fan")
               ELSE m,
               ShaftLimitBeforeClosure(p), <<>>)

HoleRIgnoringThrough(p) == p.shaft_dia \div 2

HoleR(p) == IF p.through_hole THEN p.shaft_dia \div 2 ELSE 0

\* the radius of dish step s, clamped to hole_r from below
DishRadius(p, s) ==
    LET curr_r == ((p.recess_diameter \div 2) * (5 - s)) \div 5
    IN  IF curr_r < HoleR(p) THEN HoleR(p) ELSE curr_r

DishRing(p, s, z_top_mesh) ==
    LET z_curr == z_top_mesh - (p.recess_depth * (25 - (5 - s) * (5 - s))) \div 25
    IN  [k \in 1..p.segments |-> Pt(k - 1, DishRadius(p, s), z_curr)]

\* the loop without its break: all 5 steps, whatever the radius
RECURSIVE DishLoopNoBreak(_, _, _, _)
DishLoopNoBreak(p, dish_rings, s, z_top_mesh) ==
    IF s > 5 THEN dish_rings
    ELSE DishLoopNoBreak(p, Append(dish_rings, DishRing(p, s, z_top_mesh)), s + 1, z_top_mesh)

\* for s in range(1, dish_steps + 1): ...; if curr_r <= hole_r + 0.001: break
RECURSIVE DishLoop(_, _, _, _)
DishLoop(p, dish_rings, s, z_top_mesh) ==
    IF s > 5 THEN dish_rings
    ELSE LET rings == Append(dish_rings, DishRing(p, s, z_top_mesh))
         IN  IF DishRadius(p, s) <= HoleR(p) + EPS THEN rings
             ELSE DishLoop(p, rings, s + 1, z_top_mesh)

RECURSIVE StitchDish(_, _, _)
StitchDish(m, rings, r) ==
    IF r >= Len(rings) THEN m
    ELSE StitchDish(Stitch(m, rings[r], rings[r + 1], FALSE, "dish"), rings, r + 1)

DishClosure(p, m, outer_rings) ==
    LET z_top_mesh == ZTopMesh(outer_rings)
        recess_start_ring == RingAt(create_circle_profile(p.recess_diameter, p.segments), z_top_mesh)
        m1 == Stitch(m, TopOuterRing(outer_rings), recess_start_ring, FALSE, "dish_rim")
        dish_rings == DishLoop(p, <<recess_start_ring>>, 1, z_top_mesh)
        m2 == StitchDish(m1, dish_rings, 1)
        final_ring == dish_rings[Len(dish_rings)]
        z_final == final_ring[1].z
        final_r == Abs(final_ring[1].r)
    IN  Closed(IF ~IsOpen(p) /\ final_r > 100
               THEN Fan(m2, z_final, final_ring, "dish_fan")
               ELSE m2,
               z_final, dish_rings)

\* raises TypeError at nut_info["width"] when nut_info is None
OpenRingRaises(p) ==
    p.shaft_type = "Nut Trap" /\ p.nut_location = "Top" /\ ~Truthy(p.nut_info)

OpenRingClosure(p, m, outer_rings) ==
    IF OpenRingRaises(p)
    THEN [m |-> m, zlim |-> ShaftLimitBeforeClosure(p), dish |-> <<>>, raised |-> TRUE]
    ELSE LET z_top_mesh == ZTopMesh(outer_rings)
             hole == IF p.shaft_type = "Nut Trap" /\ p.nut_location = "Top"
                     THEN create_polygon_profile(p.nut_info.width + NutTolerance(p.nut_info),
                                                 6, p.segments)
                     ELSE create_circle_profile(p.shaft_dia, p.segments)
         IN  Closed(Stitch(m, TopOuterRing(outer_rings), RingAt(hole, z_top_mesh),
                           FALSE, "open_ring"),
                    z_top_mesh, <<>>)

FlatCapClosure(p, m, outer_rings) ==
    Closed(Fan(m, ZTopMesh(outer_rings), TopOuterRing(outer_rings), "top_fan"),
           ShaftLimitBeforeClosure(p), <<>>)

TopBranch(p) ==
    IF p.is_dome THEN "dome"
    ELSE IF p.recess_depth > 0 THEN "dish"
    ELSE IF IsOpen(p) THEN "open"
    ELSE "flat"

TopClosure(p, m, outer_rings) ==
    CASE TopBranch(p) = "dome" -> DomeClosure(p, m, outer_rings)
      [] TopBranch(p) = "dish" -> DishClosure(p, m, outer_rings)
      [] TopBranch(p) = "open" -> OpenRingClosure(p, m, outer_rings)
      [] TopBranch(p) = "flat" -> FlatCapClosure(p, m, outer_rings)

(***************************************************************************)
(* 5. Inner cavity and 6. bottom                                           *)
(***************************************************************************)
HasNut(p) == p.shaft_type = "Nut Trap" /\ Truthy(p.nut_info)

PocketAtAnyLocation(p) == HasNut(p)

\* the hex wall and the transition ring are built under nut_location == "Bottom"
PocketBuilt(p) == HasNut(p) /\ p.nut_location = "Bottom"

NutPocket(p, m) ==
    IF PocketBuilt(p)
    THEN LET w == p.nut_info.width + NutTolerance(p.nut_info)
             h == p.nut_info.height + 200
             trap_poly == create_polygon_profile(w, 6, p.segments)
             shaft_p == create_circle_profile(p.shaft_dia, p.segments)
             m1 == Stitch(m, RingAt(trap_poly, 0), RingAt(trap_poly, h), TRUE, "hex_wall")
         IN  StitchReversed(m1, RingAt(trap_poly, h), RingAt(shaft_p, h), "transition")
    ELSE m

\* raises TypeError at nut_info["height"] when nut_info is None
BoreRaises(p) ==
    p.shaft_type = "Nut Trap" /\ p.nut_location = "Bottom" /\ ~Truthy(p.nut_info)

BoreBottom(p) ==
    IF p.shaft_type = "Nut Trap" /\ p.nut_location = "Bottom"
    THEN p.nut_info.height + 200
    ELSE 0

BoreTopFromLimit(p, z_shaft_top_limit) == z_shaft_top_limit

BoreTop(p, z_shaft_top_limit) ==
    IF p.through_hole THEN z_shaft_top_limit ELSE p.hole_depth

BoreCappedForAnyShaft(p) == ~p.through_hole

\* the test on through_hole inverted
BoreCappedWhenThrough(p) == p.through_hole /\ p.shaft_type # "Nut Trap"

BoreCapped(p) == ~p.through_hole /\ p.shaft_type # "Nut Trap"

BoreWall(p, m, shaft_profile, z_bot, z_top) ==
    IF z_top > z_bot
    THEN LET wall == Stitch(m, RingAt(shaft_profile, z_bot), RingAt(shaft_profile, z_top),
                            TRUE, "bore_wall")
         IN  IF BoreCapped(p)
             THEN Fan(wall, z_top, RingAt(shaft_profile, z_top), "bore_cap")
             ELSE wall
    ELSE m

InnerBottom(p, shaft_profile) ==
    IF p.shaft_type = "Nut Trap" /\ p.nut_location = "Bottom"
    THEN RingAt(create_polygon_profile(p.nut_info.width + NutTolerance(p.nut_info),
                                       6, p.segments), 0)
    ELSE RingAt(shaft_profile, 0)

BaseCap(p, m, outer_rings, shaft_profile) ==
    StitchReversed(m, outer_rings[1], InnerBottom(p, shaft_profile), "base")

\* data['vectors'][i][j] = np_verts[face[j]]
Vectors(m) ==
    [k \in 1..Len(m.f) |->
        <<m.v[m.f[k][1] + 1], m.v[m.f[k][2] + 1], m.v[m.f[k][3] + 1]>>]

(***************************************************************************)
(* generate_knob_mesh as one function: what it returns, or that it raises. *)
(***************************************************************************)
Raised == [raised |-> TRUE]

Generate(p) ==
    LET outer_rings == OuterRings(p, BodyProfile(p), BossProfile(p))
        top == TopClosure(p, StitchOuter(EmptyMesh, outer_rings, 1), outer_rings)
    IN  IF top.raised \/ BoreRaises(p) THEN Raised
        ELSE LET m == BaseCap(p,
                         BoreWall(p, NutPocket(p, top.m), ShaftProfile(p),
                                  BoreBottom(p), BoreTop(p, top.zlim)),
                         outer_rings, ShaftProfile(p))
             IN  [raised |-> FALSE, vectors |-> Vectors(m), part |-> m.part]

(***************************************************************************)
(* State.  One call of generate_knob_mesh, section by section (pc), with   *)
(* its locals; and one script run of the control panel (app_pc).           *)
(***************************************************************************)
VARIABLES
    pc,                 \* the section of generate_knob_mesh about to run
    params,             \* the arguments of the call
    body_profile, boss_profile, shaft_profile,
    outer_rings,
    all_vertices, all_faces,
    part,               \* for each face, the section that emitted it
    z_shaft_top_limit,
    dish_rings,
    z_bot, z_top,
    result,             \* the vectors of the returned mesh
    app_pc,             \* the place of the script run in app.py
    widgets,            \* the values of the sidebar controls
    mesh_obj,           \* the script's variable mesh_obj
    shown               \* what the page shows: chart, error, metric, download

gen_vars == <<pc, params, body_profile, boss_profile, shaft_profile, outer_rings,
              all_vertices, all_faces, part, z_shaft_top_limit, dish_rings,
              z_bot, z_top, result>>
app_vars == <<app_pc, widgets, mesh_obj, shown>>
vars == <<gen_vars, app_vars>>

Unbound == "unbound"
\* mesh_obj before and after its assignment
NoMesh == [bound |-> FALSE]
MeshObject(vectors) == [bound |-> TRUE, vectors |-> vectors]

Mesh == [v |-> all_vertices, f |-> all_faces, part |-> part]

SetMesh(m) ==
    /\ all_vertices' = m.v
    /\ all_faces' = m.f
    /\ part' = m.part

LocalsUnbound ==
    /\ body_profile = <<>> /\ boss_profile = <<>> /\ shaft_profile = <<>>
    /\ outer_rings = <<>>
    /\ all_vertices = <<>> /\ all_faces = <<>> /\ part = <<>>
    /\ z_shaft_top_limit = Unbound
    /\ dish_rings = <<>>
    /\ z_bot = Unbound /\ z_top = Unbound
    /\ result = Unbound

Init ==
    /\ pc = "profiles"
    /\ params \in Calls
    /\ LocalsUnbound
    /\ app_pc = "none" /\ widgets = Unbound /\ mesh_obj = NoMesh /\ shown = <<>>

\* knob_lib.py 104-127
Profiles ==
    /\ pc = "profiles"
    /\ body_profile' = BodyProfile(params)
    /\ boss_profile' = BossProfile(params)
    /\ shaft_profile' = ShaftProfile(params)
    /\ pc' = "shell"
    /\ UNCHANGED <<params, outer_rings, all_vertices, all_faces, part,
                   z_shaft_top_limit, dish_rings, z_bot, z_top, result, app_vars>>

\* knob_lib.py 144-219
LoftShell ==
    /\ pc = "shell"
    /\ outer_rings' = OuterRings(params, body_profile, boss_profile)
    /\ pc' = "stitch"
    /\ UNCHANGED <<params, body_profile, boss_profile, shaft_profile, all_vertices,
                   all_faces, part, z_shaft_top_limit, dish_rings, z_bot, z_top,
                   result, app_vars>>

\* knob_lib.py 221-227
StitchShell ==
    /\ pc = "stitch"
    /\ SetMesh(StitchOuter(EmptyMesh, outer_rings, 1))
    /\ pc' = "top"
    /\ UNCHANGED <<params, body_profile, boss_profile, shaft_profile, outer_rings,
                   z_shaft_top_limit, dish_rings, z_bot, z_top, result, app_vars>>

\* knob_lib.py 229-322: the branch the parameters select
Close(branch, top) ==
    /\ pc = "top"
    /\ TopBranch(params) = branch
    /\ SetMesh(top.m)
    /\ z_shaft_top_limit' = top.zlim
    /\ dish_rings' = top.dish
    /\ pc' = IF top.raised THEN "raised" ELSE "pocket"
    /\ UNCHANGED <<params, body_profile, boss_profile, shaft_profile, outer_rings,
                   z_bot, z_top, result, app_vars>>

DomeFan == Close("dome", DomeClosure(params, Mesh, outer_rings))
RecessedDish == Close("dish", DishClosure(params, Mesh, outer_rings))
OpenRing == Close("open", OpenRingClosure(params, Mesh, outer_rings))
FlatFanCap == Close("flat", FlatCapClosure(params, Mesh, outer_rings))

\* knob_lib.py 325-344
HexPocket ==
    /\ pc = "pocket"
    /\ SetMesh(NutPocket(params, Mesh))
    /\ pc' = "bore"
    /\ UNCHANGED <<params, body_profile, boss_profile, shaft_profile, outer_rings,
                   z_shaft_top_limit, dish_rings, z_bot, z_top, result, app_vars>>

\* knob_lib.py 346-373
Bore ==
    /\ pc = "bore"
    /\ IF BoreRaises(params)
       THEN /\ pc' = "raised"
            /\ z_bot' = 0
            /\ z_top' = BoreTop(params, z_shaft_top_limit)
            /\ UNCHANGED <<all_vertices, all_faces, part>>
       ELSE /\ pc' = "base"
            /\ z_bot' = BoreBottom(params)
            /\ z_top' = BoreTop(params, z_shaft_top_limit)
            /\ SetMesh(BoreWall(params, Mesh, shaft_profile,
                                BoreBottom(params), BoreTop(params, z_shaft_top_limit)))
    /\ UNCHANGED <<params, body_profile, boss_profile, shaft_profile, outer_rings,
                   z_shaft_top_limit, dish_rings, result, app_vars>>

\* knob_lib.py 375-386
Base ==
    /\ pc = "base"
    /\ SetMesh(BaseCap(params, Mesh, outer_rings, shaft_profile))
    /\ pc' = "assemble"
    /\ UNCHANGED <<params, body_profile, boss_profile, shaft_profile, outer_rings,
                   z_shaft_top_limit, dish_rings, z_bot, z_top, result, app_vars>>

\* knob_lib.py 388-394
Assemble ==
    /\ pc = "assemble"
    /\ result' = Vectors(Mesh)
    /\ pc' = "returned"
    /\ UNCHANGED <<params, body_profile, boss_profile, shaft_profile, outer_rings,
                   all_vertices, all_faces, part, z_shaft_top_limit, dish_rings,
                   z_bot, z_top, app_vars>>

Next ==
    \/ Profiles \/ LoftShell \/ StitchShell
    \/ DomeFan \/ RecessedDish \/ OpenRing \/ FlatFanCap
    \/ HexPocket \/ Bore \/ Base \/ Assemble

Spec == Init /\ [][Next]_vars

(***************************************************************************)
(* The script run of the control panel (app.py).  The sidebar turns the    *)
(* values of its controls into the arguments of the call; the preview      *)
(* column calls the engine inside try/except; the download column follows. *)
(***************************************************************************)
Widgets ==
    [ knob_dia : {25 * MM}, knob_height : {5 * MM, 15 * MM},
      knob_style : {"Round", "Lobed"}, is_dome : BOOLEAN,
      recess_depth : {0, 5 * MM}, boss_height : {0, 5 * MM},
      shaft_mode : {"D-Shaft", "Round Hole", "Nut Trap"},
      nut_choice : {"M3 Nut", "M8 Nut"}, through : BOOLEAN,
      hole_depth : {1 * MM, 5 * MM}, resolution : SegmentValues ]

\* app.py 207-288
SidebarArgs(w) ==
    LET nut_trap == w.shaft_mode = "Nut Trap"
        recess_depth == IF ~w.is_dome THEN w.recess_depth ELSE 0
    IN  [ knob_diameter |-> w.knob_dia, knob_height |-> w.knob_height,
          knob_style |-> w.knob_style,
          lobes |-> IF w.knob_style = "Lobed" THEN 5 ELSE 6,
          lobe_protrusion |-> 300, ridges |-> 0,
          top_fillet_radius |-> 2 * MM, top_fillet_height |-> 2 * MM,
          bottom_fillet_radius |-> 0, bottom_fillet_height |-> 0,
          is_dome |-> w.is_dome,
          boss_height |-> w.boss_height, boss_diameter |-> 10 * MM,
          recess_depth |-> recess_depth,
          recess_diameter |-> IF recess_depth > 0 THEN (w.knob_dia * 8) \div 10 ELSE 15 * MM,
          shaft_type |-> w.shaft_mode, shaft_dia |-> 6 * MM,
          hole_depth |-> IF nut_trap THEN w.knob_height
                         ELSE IF ~w.through THEN w.hole_depth ELSE 10 * MM,
          through_hole |-> w.through,
          nut_info |-> IF nut_trap THEN NUT_TYPES[w.nut_choice] ELSE None,
          nut_location |-> "Bottom",
          segments |-> w.resolution ]

InitApp ==
    /\ app_pc = "sidebar"
    /\ widgets \in Widgets
    /\ mesh_obj = NoMesh
    /\ shown = <<>>
    /\ pc = "idle" /\ params = Unbound /\ LocalsUnbound

\* app.py 192-288
Sidebar ==
    /\ app_pc = "sidebar"
    /\ params' = SidebarArgs(widgets)
    /\ app_pc' = "try"
    /\ UNCHANGED <<pc, body_profile, boss_profile, shaft_profile, outer_rings,
                   all_vertices, all_faces, part, z_shaft_top_limit, dish_rings,
                   z_bot, z_top, result, widgets, mesh_obj, shown>>

AppUnchanged ==
    UNCHANGED <<pc, params, body_profile, boss_profile, shaft_profile, outer_rings,
                all_vertices, all_faces, part, z_shaft_top_limit, dish_rings,
                z_bot, z_top, result, widgets>>

\* app.py 295-360: the call returns, mesh_obj is bound and the chart is drawn
TryGenerate ==
    /\ app_pc = "try"
    /\ ~Generate(params).raised
    /\ mesh_obj' = MeshObject(Generate(params).vectors)
    /\ shown' = Append(shown, "chart")
    /\ app_pc' = "col_dl"
    /\ AppUnchanged

\* app.py 296, 362: the call raises and leaves mesh_obj unassigned.  The
\* engine raises on none of the sidebar's argument sets by itself; the
\* failure caught here is one from outside its arithmetic (np.zeros and
\* np.array allocate, knob_lib.py 388-389), which `except Exception` is
\* written for.
TryGenerateRaises ==
    /\ app_pc = "try"
    /\ app_pc' = "except"
    /\ UNCHANGED <<mesh_obj, shown>>
    /\ AppUnchanged

\* app.py 362-363
Except ==
    /\ app_pc = "except"
    /\ shown' = Append(shown, "Generation Error")
    /\ app_pc' = "col_dl"
    /\ UNCHANGED mesh_obj
    /\ AppUnchanged

\* app.py 365-366: st.metric reads mesh_obj
ShowMetric ==
    /\ app_pc = "col_dl"
    /\ mesh_obj.bound
    /\ shown' = Append(shown, "Volume")
    /\ app_pc' = "download"
    /\ UNCHANGED mesh_obj
    /\ AppUnchanged

\* app.py 366: mesh_obj was never assigned, the read raises NameError, which
\* nothing catches: the script run ends there
MetricNameError ==
    /\ app_pc = "col_dl"
    /\ ~mesh_obj.bound
    /\ app_pc' = "uncaught NameError"
    /\ UNCHANGED <<mesh_obj, shown>>
    /\ AppUnchanged

\* app.py 368-375
Download ==
    /\ app_pc = "download"
    /\ shown' = Append(shown, "Download STL")
    /\ app_pc' = "done"
    /\ UNCHANGED mesh_obj
    /\ AppUnchanged

NextApp ==
    \/ Sidebar \/ TryGenerate \/ TryGenerateRaises \/ Except
    \/ ShowMetric \/ MetricNameError \/ Download

SpecApp == InitApp /\ [][NextApp]_vars

(***************************************************************************)
(* Vocabulary of the properties                                            *)
(***************************************************************************)
N == params.segments
Count(tag) == Cardinality({k \in 1..Len(part) : part[k] = tag})
PastTop == pc \in {"pocket", "bore", "base", "assemble", "returned"}
Range(seq) == {seq[k] : k \in 1..Len(seq)}

PlainRoundKnob(p) ==
    /\ p.knob_style = "Round" /\ p.ridges = 0
    /\ p.top_fillet_radius = 0 /\ p.top_fillet_height = 0
    /\ p.bottom_fillet_radius = 0 /\ p.bottom_fillet_height = 0
    /\ ~p.is_dome /\ p.boss_height = 0 /\ p.recess_depth = 0
    /\ p.shaft_type = "Round Hole" /\ ~p.through_hole /\ p.hole_depth > 0

\* C1 as stated: a plain round knob with a blind round hole has 7N triangles,
\* N of them in the bottom annulus
C1_Original ==
    (pc = "returned" /\ PlainRoundKnob(params)) =>
        /\ Count("shell") = 2 * N /\ Count("top_fan") = N /\ Count("base") = N
        /\ Count("bore_wall") = 2 * N /\ Count("bore_cap") = N
        /\ Len(result) = 7 * N

\* C1 as amended: the bottom annulus is N quads, 2N triangles, and the mesh
\* has 2N (wall) + N (top fan) + 2N (bottom annulus) + 2N (bore wall) + N (bore
\* cap) = 8N triangles
C1_PlainRoundCount ==
    (pc = "returned" /\ PlainRoundKnob(params)) =>
        /\ Count("shell") = 2 * N /\ Count("top_fan") = N /\ Count("base") = 2 * N
        /\ Count("bore_wall") = 2 * N /\ Count("bore_cap") = N
        /\ Len(result) = 8 * N

C1_Witness == pc = "returned" /\ PlainRoundKnob(params) /\ Len(result) = 8 * N

\* C2 as stated: once the boundary has shown the generation-failed message,
\* the script run meets no uncaught exception
C2_Original ==
    "Generation Error" \in Range(shown) => app_pc # "uncaught NameError"

ScenarioC(p) ==
    /\ ~p.is_dome /\ p.recess_depth > 0
    /\ p.shaft_type = "Round Hole" /\ ~p.through_hole

LastDishRing == dish_rings[Len(dish_rings)]

\* C3 as stated: in scenario C the last dish ring has the bore radius
\* shaft_dia/2 and no apex fan is emitted over it
C3_Original ==
    (PastTop /\ ScenarioC(params)) =>
        /\ \A k \in 1..N : LastDishRing[k].r = params.shaft_dia \div 2
        /\ Count("dish_fan") = 0

\* C3 as amended: in scenario C the dish runs all 5 steps and its last ring
\* has radius 0, every point on the axis at z_top_mesh - recess_depth; no apex
\* fan is emitted over it, and the dish is closed there, not open to the bore
C3_BlindDishClosesOnAxis ==
    (PastTop /\ ScenarioC(params)) =>
        /\ Len(dish_rings) = 6
        /\ \A k \in 1..N :
              /\ LastDishRing[k].r = 0
              /\ LastDishRing[k].z = ZTopMesh(outer_rings) - params.recess_depth
        /\ Count("dish_fan") = 0

C3_Witness == pc = "returned" /\ ScenarioC(params) /\ Count("dish") = 10 * N

DomeCase(p) == p.is_dome /\ z_base(p) + p.knob_height > z_fillet_start(p)

\* C4 as stated: a dome of positive height is closed by a fan of N triangles
\* around one apex vertex
C4_Original ==
    (PastTop /\ DomeCase(params)) =>
        /\ Count("dome_fan") = N
        /\ \E k \in 1..Len(all_vertices) :
              all_vertices[k] = Center(z_base(params) + params.knob_height)

\* C4 as amended: the final dome ring has radius 0, every point at the top
\* centre z_base + knob_height, so the dome fan is skipped: the closure adds
\* no apex vertex and no triangle, and the dome is closed by the shell's last
\* strip of N quads
C4_DomeFanSkipped ==
    (PastTop /\ DomeCase(params)) =>
        /\ \A k \in 1..N :
              /\ TopOuterRing(outer_rings)[k].r = 0
              /\ TopOuterRing(outer_rings)[k].z = z_base(params) + params.knob_height
        /\ Count("dome_fan") = 0
        /\ Count("shell") = 2 * N * (Len(outer_rings) - 1)
        /\ (pc = "pocket" => Len(all_vertices) = 4 * N * (Len(outer_rings) - 1))

C4_Witness == pc = "returned" /\ DomeCase(params) /\ Count("dome_fan") = 0

Returned == pc = "returned"

\* the feature selection of a call: what is enabled, no dimension value
Features(p) ==
    [ segments |-> p.segments, knob_style |-> p.knob_style, ridged |-> p.ridges > 0,
      boss |-> p.boss_height > 100, bottom_fillet |-> HasBottomFillet(p),
      top |-> IF p.is_dome THEN "dome"
              ELSE IF p.top_fillet_radius > 0 \/ p.top_fillet_height > 0 THEN "fillet"
              ELSE "none",
      dish |-> p.recess_depth > 0, shaft_type |-> p.shaft_type,
      nut |-> Truthy(p.nut_info), through_hole |-> p.through_hole,
      nut_location |-> p.nut_location ]

\* calls that differ from p in the shaft diameter and the hole depth only
DimensionVariants(p) ==
    { [p EXCEPT !.shaft_dia = d, !.hole_depth = h] :
        d \in {2 * MM, 6 * MM}, h \in {1 * MM, 5 * MM} }

\* C5 as stated: calls with the same segments and feature selection that
\* differ in dimension values return the same number of triangles
C5_Original ==
    Returned =>
        \A q \in DimensionVariants(params) :
            (Features(q) = Features(params) /\ ~Generate(q).raised)
                => Len(Generate(q).vectors) = Len(result)

\* rings of the outer shell, from the feature selection
ShellRingCount(p) ==
    (IF p.boss_height > 100 THEN 2 ELSE 0) + (IF HasBottomFillet(p) THEN 7 ELSE 1) + 1
        + (IF p.is_dome THEN 12
           ELSE IF p.top_fillet_radius > 0 \/ p.top_fillet_height > 0 THEN 8 ELSE 0)

\* dish rings lofted below the rim: the first step s of 1..5 whose radius
\* (recess_diameter / 2) * (1 - s / 5) is within 0.001 of the hole radius
\* (shaft_dia / 2 under through_hole, else 0), which is step 5 at the latest
DishSteps(p) ==
    LET hole_r == IF p.through_hole THEN p.shaft_dia \div 2 ELSE 0
        stops == {s \in 1..5 : ((p.recess_diameter \div 2) * (5 - s)) \div 5 <= hole_r + EPS}
    IN  CHOOSE s \in stops : \A u \in stops : s <= u

TopCount(p) ==
    CASE TopBranch(p) = "dome" -> 0
      [] TopBranch(p) = "dish" -> 2 * p.segments * (1 + DishSteps(p))
      [] TopBranch(p) = "open" -> 2 * p.segments
      [] TopBranch(p) = "flat" -> p.segments

\* C5 as amended: the triangle count is fixed by segments, the feature
\* selection and two facts that depend on dimension values: the number of
\* dish steps before the dish loop breaks at the hole radius, and whether the
\* bore wall is built at all (z_top > z_bot).  With N = segments it is
\* 2N (shell rings - 1) + top (dome 0, dish 2N (1 + dish steps), open ring 2N,
\* flat fan N) + 4N for a bottom nut pocket + bore (2N, and N more for the cap
\* of a blind bore that is no nut trap, if z_top > z_bot) + 2N for the base
C5_TriangleCount ==
    Returned =>
        Len(result) = 2 * N * (ShellRingCount(params) - 1) + TopCount(params)
                      + (IF HasNut(params) /\ params.nut_location = "Bottom" THEN 4 * N ELSE 0)
                      + (IF z_top > z_bot
                         THEN 2 * N + (IF ~params.through_hole /\ params.shaft_type # "Nut Trap"
                                       THEN N ELSE 0)
                         ELSE 0)
                      + 2 * N

C5_Witness ==
    /\ Returned /\ params.recess_depth > 0 /\ params.through_hole /\ ~params.is_dome
    /\ DishSteps(params) = 3 /\ Count("dish") = 6 * N

\* calls that differ from p in the top fillet and the finger dish only
DomeVariants(p) ==
    { [p EXCEPT !.top_fillet_radius = t[1], !.top_fillet_height = t[2],
                !.recess_depth = r[1], !.recess_diameter = r[2]] :
        t \in {<<3 * MM, 4 * MM>>}, r \in {<<0, 15 * MM>>, <<10 * MM, 5 * MM>>} }

\* C6: under is_dome, a call that differs only in top_fillet_radius,
\* top_fillet_height, recess_depth or recess_diameter returns the identical
\* triangle list
C6_DomeIgnoresFilletAndDish ==
    (Returned /\ params.is_dome) =>
        \A q \in DomeVariants(params) :
            ~Generate(q).raised /\ Generate(q).vectors = result

C6_Witness ==
    /\ Returned /\ params.is_dome
    /\ params.top_fillet_height = 2 * MM /\ params.recess_depth = 5 * MM
    /\ Len(result) > 0

NutTrapBlind(p) == HasNut(p) /\ ~p.through_hole

\* C7 as stated: a blind nut-trap bore is closed by an apex fan of N
\* triangles, next to the hex pocket wall and the transition ring
C7_Original ==
    (Returned /\ NutTrapBlind(params)) =>
        /\ Count("bore_cap") = N
        /\ Count("hex_wall") = 2 * N /\ Count("transition") = 2 * N

\* C7 as amended: a blind nut-trap bore gets no apex fan: the cavity builder
\* emits the bore wall alone (2N triangles from the bore bottom to hole_depth,
\* none when hole_depth is not above the bore bottom) and leaves its top
\* uncapped; the hex pocket wall and the transition ring, 2N triangles each,
\* are emitted when nut_location is Bottom
C7_NutTrapBoreUncapped ==
    (Returned /\ NutTrapBlind(params)) =>
        /\ Count("bore_cap") = 0
        /\ z_top = params.hole_depth
        /\ Count("bore_wall") = IF params.hole_depth > z_bot THEN 2 * N ELSE 0
        /\ params.nut_location = "Bottom" =>
              Count("hex_wall") = 2 * N /\ Count("transition") = 2 * N

C7_Witness ==
    /\ Returned /\ NutTrapBlind(params) /\ params.nut_location = "Bottom"
    /\ Count("bore_wall") = 2 * N /\ Count("hex_wall") = 2 * N /\ Count("bore_cap") = 0

\* the triangles of vectors that the sections in tags emitted, in order
FacesOf(vectors, parts, tags) ==
    [k \in {j \in 1..Len(parts) : parts[j] \in tags} |-> vectors[k]]

CavityAndBase == {"hex_wall", "transition", "bore_wall", "bore_cap", "base"}

\* C8 as stated: with a nut specification the hex pocket is built at the
\* bottom for either nut_location, and the call with nut_location Top has the
\* pocket, bore and base cap of the call with nut_location Bottom
C8_Original ==
    (Returned /\ HasNut(params) /\ params.nut_location = "Top") =>
        LET bottom == Generate([params EXCEPT !.nut_location = "Bottom"])
        IN  /\ Count("hex_wall") = 2 * N /\ Count("transition") = 2 * N
            /\ ~bottom.raised
            /\ FacesOf(result, part, CavityAndBase)
                   = FacesOf(bottom.vectors, bottom.part, CavityAndBase)

\* the inner ring of the base cap: vertices 3 and 4 of each of its N quads,
\* which are the last 4N vertices of the mesh
BaseInnerRing ==
    [k \in 1..N |-> all_vertices[Len(all_vertices) - 4 * N + 4 * (k - 1) + 3]]

HexRing(p) ==
    RingAt(create_polygon_profile(p.nut_info.width + NutTolerance(p.nut_info), 6, p.segments), 0)

\* C8 as amended: with a nut specification the hex pocket is built only for
\* nut_location Bottom: hex wall and transition ring of 2N triangles each,
\* the bore starting at nut height + 0.2, the base cap closing onto the hex
\* profile.  For nut_location Top there is no hex wall and no transition
\* ring, the bore starts at z = 0 and the base cap closes onto the shaft's
\* circular profile
C8_PocketOnlyAtBottom ==
    (Returned /\ HasNut(params)) =>
        IF params.nut_location = "Bottom"
        THEN /\ Count("hex_wall") = 2 * N /\ Count("transition") = 2 * N
             /\ z_bot = params.nut_info.height + 200
             /\ BaseInnerRing = HexRing(params)
        ELSE /\ Count("hex_wall") = 0 /\ Count("transition") = 0
             /\ z_bot = 0
             /\ BaseInnerRing = RingAt(create_circle_profile(params.shaft_dia, N), 0)

C8_Witness ==
    /\ Returned /\ HasNut(params) /\ params.nut_location = "Top"
    /\ Count("bore_wall") = 2 * N /\ Count("hex_wall") = 0

BoreBuilt == pc \in {"base", "assemble", "returned"} /\ z_top > z_bot

\* C9 as stated: the bore wall's top is z_shaft_top_limit when the hole is
\* blind and the full height z_base + knob_height under through_hole
C9_Original ==
    BoreBuilt =>
        z_top = IF params.through_hole THEN total_z_height(params) ELSE z_shaft_top_limit

\* the z of the vertices of the bore wall's triangles
BoreWallHeights ==
    { all_vertices[all_faces[k][j] + 1].z :
        k \in {i \in 1..Len(part) : part[i] = "bore_wall"}, j \in 1..3 }

\* C9 as amended: whenever the bore wall is built it runs from z_bot to
\* z_top, and z_top is hole_depth when the hole is blind and
\* z_shaft_top_limit under through_hole, where the top-closure branch left
\* z_shaft_top_limit at z_base + knob_height (dome), at the z of the last
\* dish ring (dish) or at the top of the shell (open ring)
C9_BoreTop ==
    BoreBuilt =>
        /\ BoreWallHeights = {z_bot, z_top}
        /\ z_top = IF params.through_hole THEN z_shaft_top_limit ELSE params.hole_depth
        /\ params.through_hole =>
              z_shaft_top_limit =
                  CASE TopBranch(params) = "dome" -> total_z_height(params)
                    [] TopBranch(params) = "dish" -> LastDishRing[1].z
                    [] TopBranch(params) = "open" -> ZTopMesh(outer_rings)

C9_Witness ==
    /\ Returned /\ z_top > z_bot /\ params.through_hole /\ TopBranch(params) = "dish"
    /\ z_top # total_z_height(params) /\ Count("bore_wall") = 2 * N

\* the face is the first or the second triangle of a flipped add_quad
FlippedQuadFace(f) ==
    \/ f[2] = f[1] + 2 /\ f[3] = f[1] + 1
    \/ f[2] = f[1] + 3 /\ f[3] = f[1] + 2

\* a fan triangle [centre, a, b] going round with the profile (b follows a),
\* which faces up, or against it, which faces down
FanFacesUp(f) ==
    all_vertices[f[3] + 1].i = (all_vertices[f[2] + 1].i + 1) % N
FanFacesDown(f) ==
    all_vertices[f[2] + 1].i = (all_vertices[f[3] + 1].i + 1) % N

\* C10 as stated: bore wall and hex wall quads have the flipped triangle
\* order, and the blind bore's closing fan is wound opposite to the flat top
\* fan: the top fan faces up, the bore cap down into the cavity
C10_Original ==
    Returned =>
        \A k \in 1..Len(part) :
            /\ part[k] \in {"bore_wall", "hex_wall"} => FlippedQuadFace(all_faces[k])
            /\ part[k] = "top_fan" => FanFacesUp(all_faces[k])
            /\ part[k] = "bore_cap" => FanFacesDown(all_faces[k])

ThroughDish(p) == TopBranch(p) = "dish" /\ p.through_hole

\* C11 as stated: in a through-hole dish no dish ring, the starting recess
\* ring included, has a radius below shaft_dia / 2, and the loft stops at the
\* first ring that reaches that floor
C11_Original ==
    (PastTop /\ ThroughDish(params)) =>
        LET hole_r == params.shaft_dia \div 2
        IN  /\ \A s \in 1..Len(dish_rings) : \A k \in 1..N : dish_rings[s][k].r >= hole_r
            /\ \A s \in 2..(Len(dish_rings) - 1) : dish_rings[s][1].r > hole_r + EPS
            /\ LastDishRing[1].r <= hole_r + EPS

ShellStitched == pc \in {"top", "pocket", "bore", "base", "assemble", "returned"}

\* the face is the first or the second triangle of a non-flipped add_quad
PlainQuadFace(f) ==
    \/ f[2] = f[1] + 1 /\ f[3] = f[1] + 2
    \/ f[2] = f[1] + 2 /\ f[3] = f[1] + 3

\* C12: the ring stack has (2 if boss_height > 0.1 else 0) + (7 with a bottom
\* fillet, else 1) + 1 + (12 under is_dome, else 8 with a top fillet, else 0)
\* rings of `segments` points each, and the outer shell is
\* 2 * segments * (rings - 1) triangles, all with non-flipped winding
C12_ShellRings ==
    ShellStitched =>
        /\ Len(outer_rings) = ShellRingCount(params)
        /\ \A r \in 1..Len(outer_rings) : Len(outer_rings[r]) = N
        /\ Count("shell") = 2 * N * (Len(outer_rings) - 1)
        /\ \A k \in 1..Len(part) : part[k] = "shell" => PlainQuadFace(all_faces[k])

C12_Witness ==
    /\ Returned /\ params.boss_height > 100 /\ HasBottomFillet(params) /\ params.is_dome
    /\ Len(outer_rings) = 22 /\ Count("shell") = 42 * N

Vertex(f, j) == all_vertices[f[j] + 1]

OnAxis(a) == a.r = 0

\* the same point of space: the same height and either both on the axis or
\* the same angle and distance
SamePoint(a, b) ==
    a.z = b.z /\ ((OnAxis(a) /\ OnAxis(b)) \/ (a.i = b.i /\ a.r = b.r))

TwoCoincide(f) ==
    \/ SamePoint(Vertex(f, 1), Vertex(f, 2))
    \/ SamePoint(Vertex(f, 2), Vertex(f, 3))
    \/ SamePoint(Vertex(f, 1), Vertex(f, 3))

\* C13 as stated: a triangle with coincident vertices has a vertex on the
\* axis, and no two consecutive rings of the shell are identical
C13_Original ==
    Returned =>
        /\ \A k \in 1..Len(all_faces) :
              TwoCoincide(all_faces[k]) => \E j \in 1..3 : OnAxis(Vertex(all_faces[k], j))
        /\ \A r \in 1..(Len(outer_rings) - 1) : outer_rings[r] # outer_rings[r + 1]

\* the first face the section tag emitted
FirstFace(tag) ==
    CHOOSE k \in 1..Len(part) : part[k] = tag /\ \A j \in 1..(k - 1) : part[j] # tag

\* vertex j (1..4) of quad i (0..N-1) of a strip of N add_quad calls
QuadVertex(tag, i, j) == all_vertices[all_faces[FirstFace(tag)][1] + 4 * i + j]

\* the top edge of the bore wall: p4 of each quad, shaft_profile[i] at z_top
BoreTopLoop == [k \in 1..N |-> QuadVertex("bore_wall", k - 1, 4)]

\* the inner edge of the top closure: the last dish ring, or p4 of each quad
\* of the open ring, hole_poly[i]
InnerTopLoop ==
    IF TopBranch(params) = "dish" THEN LastDishRing
    ELSE [k \in 1..N |-> QuadVertex("open_ring", k - 1, 4)]

ThroughBore(p) ==
    p.through_hole /\ TopBranch(p) \in {"dish", "open"} /\ z_top > z_bot

\* C14 as stated: under through_hole the top edge of the bore wall coincides
\* point for point with the inner edge of the top closure, for every
\* shaft_type
C14_Original ==
    (Returned /\ ThroughBore(params)) =>
        \A k \in 1..N : SamePoint(BoreTopLoop[k], InnerTopLoop[k])

RingZ(r) == outer_rings[r][1].z

\* C15 as stated: the z of the shell's rings never decreases from the first
\* ring to the last, and the last ring is at z_base + knob_height
C15_Original ==
    ShellStitched =>
        /\ \A r \in 1..(Len(outer_rings) - 1) : RingZ(r) <= RingZ(r + 1)
        /\ RingZ(Len(outer_rings)) = z_base(params) + params.knob_height

NutTrapWithoutNut(p) == p.shaft_type = "Nut Trap" /\ ~Truthy(p.nut_info)

\* C16 as stated: a Nut Trap call with nut_info None never raises, for either
\* nut_location, and returns a mesh with a plain circular bore and no hex
\* pocket
C16_Original ==
    NutTrapWithoutNut(params) =>
        /\ pc # "raised"
        /\ Returned => Count("hex_wall") = 0 /\ Count("transition") = 0

\* The section-by-section run returns what the function returns
Sane == pc = "returned" => result = Generate(params).vectors /\ part = Generate(params).part
SaneRaise == pc = "raised" => Generate(params).raised
=============================================================================
